---- MODULE Spec2Model ----
(***************************************************************************)
(* A model of etl.py: the script that reads the song catalog and the      *)
(* activity log, derives the songs, artists, users, time and songplays    *)
(* tables and writes them as parquet.                                      *)
(*                                                                         *)
(* The script is modelled as Python executes it: the file is compiled,     *)
(* its module-level statements run, then main() runs the statements of     *)
(* process_song_data and process_log_data in order.  A statement either    *)
(* binds a local name, writes a table, or raises; an exception is not      *)
(* caught anywhere in the file, so it ends the run.  Dataframes are        *)
(* sequences of rows (records keyed by column name).                       *)
(***************************************************************************)
EXTENDS Integers, Sequences, FiniteSets, TLC

\* ------------------------------------------------------------------ bounds

MaxCatalog == 2

MaxLog == 2

MaxRuns == 2

\* ------------------------------------------------------------- input rows

\* Catalog records (one JSON object per song file).  c1 and c2 share an
\* artist_name; c4 is c1 with another artist_location.
c1 == [song_id |-> "S1", title |-> "Yellow", artist_id |-> "A1",
       year |-> 2000, duration |-> 269, artist_name |-> "Coldplay",
       artist_location |-> "London", artist_latitude |-> 51,
       artist_longitude |-> 0]

c2 == [song_id |-> "S2", title |-> "Clocks", artist_id |-> "A1",
       year |-> 2002, duration |-> 307, artist_name |-> "Coldplay",
       artist_location |-> "London", artist_latitude |-> 51,
       artist_longitude |-> 0]

c3 == [song_id |-> "S3", title |-> "Hysteria", artist_id |-> "A2",
       year |-> 2003, duration |-> 227, artist_name |-> "Muse",
       artist_location |-> "Teignmouth", artist_latitude |-> 50,
       artist_longitude |-> -3]

c4 == [c1 EXCEPT !.artist_location = "UK"]

CatalogRows == {c1, c2, c3, c4}

\* Log records.  l1 and l2 are the same user at two levels; l3 is not a
\* play event; l4 plays an artist the catalog does not hold.  ts is in
\* epoch milliseconds.
l1 == [userId |-> 1, firstName |-> "Ann", lastName |-> "Lee", gender |-> "F",
       level |-> "free", page |-> "NextSong", ts |-> 1000, sessionId |-> 10,
       location |-> "Oslo", userAgent |-> "Mozilla", artist |-> "Coldplay"]

l2 == [l1 EXCEPT !.level = "paid", !.ts = 90062500]

l3 == [userId |-> 2, firstName |-> "Bob", lastName |-> "Roe", gender |-> "M",
       level |-> "free", page |-> "Home", ts |-> 3000, sessionId |-> 11,
       location |-> "Rome", userAgent |-> "Safari", artist |-> ""]

l4 == [l3 EXCEPT !.page = "NextSong", !.ts = 4000, !.artist = "Abba"]

LogRows == {l1, l2, l3, l4}

\* The sections dl.cfg may hold.
CfgSections == {"AWS_ACCESS_KEY_ID", "AWS_SECRET_ACCESS_KEY"}

BoundedSeq(S, n) == UNION {[1..k -> S] : k \in 0..n}

\* ------------------------------------------------------------------ state

VARIABLES
    catalog,   \* the records under song_data/ (input, never changed)
    log,       \* the records under log_data/ (input, never changed)
    cfg,       \* the sections of dl.cfg (input, never changed)
    pc,        \* the statement the run is at, or "done" / "failed"
    exc,       \* the exception that ended the run, or None
    env,       \* the dataframes bound to the running function's locals
    store,     \* the output location: table -> [exists, rows]
    written,   \* the tables this run has written, in order
    runs,      \* how many times the script has been started
    first      \* the output location as the first run left it

vars == <<catalog, log, cfg, pc, exc, env, store, written, runs, first>>

None == "None"

Tables == {"songs", "artists", "users", "time", "songplays"}

Locals == {"df", "songs_table", "artists_table", "users_table", "time_table",
           "song_df", "merged_df", "songplays_table"}

EmptyEnv == [n \in Locals |-> [bound |-> FALSE, rows |-> <<>>]]

EmptyStore == [t \in Tables |-> [exists |-> FALSE, rows |-> <<>>]]

\* The statements in execution order (named by their first line).
Program == <<"compile", "L12", "L138",
             "L41", "L44", "L47", "L51", "L55",
             "L79", "L82", "L85", "L89", "L94", "L98", "L101", "L112",
             "L116", "L119", "L120", "L134">>

IndexOf(p) == CHOOSE i \in 1..Len(Program) : Program[i] = p

NextPc(p) == IF IndexOf(p) = Len(Program) THEN "done" ELSE Program[IndexOf(p) + 1]

\* ------------------------------------------------------ Python's semantics

\* An exception swallowed where it is raised: the run goes on with the next
\* statement.
RaiseSwallowed(s, e) == [s EXCEPT !.pc = NextPc(s.pc)]

\* No statement of the file sits in a try block: an exception raised anywhere
\* propagates out of main() and ends the run.
Raise(s, e) == [s EXCEPT !.pc = "failed", !.exc = e]

\* Names bound at module level: the imports and the module's own definitions.
ImportedNames == {"configparser", "datetime", "os", "SparkSession", "udf", "col",
                  "year", "month", "dayofmonth", "hour", "weekofyear", "date_format"}

ModuleNames == ImportedNames \cup {"config", "create_spark_session",
                                   "process_song_data", "process_log_data", "main"}

Params == {"spark", "input_data", "output_data"}

\* Whether name n can be read inside process_song_data / process_log_data.
InScope(n, e) == \/ n \in ModuleNames \cup Params
                 \/ n \in Locals /\ e[n].bound

AllInScope(names, e) == \A n \in names : InScope(n, e)

Bind(s, name, rows) ==
    [s EXCEPT !.env[name] = [bound |-> TRUE, rows |-> rows], !.pc = NextPc(s.pc)]

\* --------------------------------------------------- dataframe operations

select(rows, cols) == [i \in 1..Len(rows) |-> [c \in cols |-> rows[i][c]]]

RECURSIVE distinct(_)
distinct(rows) ==
    IF rows = <<>> THEN <<>>
    ELSE LET init == distinct(SubSeq(rows, 1, Len(rows) - 1))
             last == rows[Len(rows)]
         IN IF \E i \in 1..Len(init) : init[i] = last THEN init
            ELSE Append(init, last)

\* withColumn(name, column): column holds the new column's value for each row.
withColumn(rows, name, column) ==
    [i \in 1..Len(rows) |->
        [c \in (DOMAIN rows[i]) \cup {name} |->
            IF c = name THEN column[i] ELSE rows[i][c]]]

\* DataFrameWriter.parquet(path, partitionBy=...) with no mode: the default
\* save mode refuses a path that exists.
parquet(s, table, name) ==
    IF s.store[table].exists THEN Raise(s, "AnalysisException")
    ELSE [s EXCEPT !.store[table] = [exists |-> TRUE, rows |-> s.env[name].rows],
                   !.written = Append(@, table),
                   !.pc = NextPc(s.pc)]

\* ------------------------------------------------------ derived timestamps

\* get_timestamp (line 93): str(int(int(x)/1000)), the epoch seconds as text.
get_timestamp(x) == <<"str", x \div 1000>>

\* get_datetime (line 97): str(datetime.fromtimestamp(int(x)/1000)).  The
\* division is a float division, so the text keeps the fraction of the second;
\* the date-time is held as its seconds and microseconds (time zone UTC).
get_datetime(x) == [sec |-> x \div 1000, usec |-> (x % 1000) * 1000]

DayNumber(dt) == dt.sec \div 86400

\* The civil date of a day number (days since 1970-01-01).
CivilFromDays(z) ==
    LET zz  == z + 719468
        era == zz \div 146097
        doe == zz - era * 146097
        yoe == (doe - doe \div 1460 + doe \div 36524 - doe \div 146096) \div 365
        doy == doe - (365 * yoe + yoe \div 4 - yoe \div 100)
        mp  == (5 * doy + 2) \div 153
        d   == doy - (153 * mp + 2) \div 5 + 1
        m   == IF mp < 10 THEN mp + 3 ELSE mp - 9
    IN [y |-> yoe + era * 400 + (IF m <= 2 THEN 1 ELSE 0), m |-> m, d |-> d]

DaysFromCivil(y, m, d) ==
    LET yy  == IF m <= 2 THEN y - 1 ELSE y
        era == yy \div 400
        yoe == yy - era * 400
        doy == (153 * (IF m > 2 THEN m - 3 ELSE m + 9) + 2) \div 5 + d - 1
        doe == yoe * 365 + yoe \div 4 - yoe \div 100 + doy
    IN era * 146097 + doe - 719468

hour(dt) == (dt.sec \div 3600) % 24

dayofmonth(dt) == CivilFromDays(DayNumber(dt)).d

month(dt) == CivilFromDays(DayNumber(dt)).m

year(dt) == CivilFromDays(DayNumber(dt)).y

\* Sunday is 1, Saturday is 7.
dayofweek(dt) == ((DayNumber(dt) + 4) % 7) + 1

WeeksInYear(y) ==
    LET p(k) == (k + k \div 4 - k \div 100 + k \div 400) % 7
    IN IF p(y) = 4 \/ p(y - 1) = 3 THEN 53 ELSE 52

\* The ISO 8601 week of the year.
weekofyear(dt) ==
    LET z   == DayNumber(dt)
        y   == year(dt)
        ord == z - DaysFromCivil(y, 1, 1) + 1
        wd  == ((z + 3) % 7) + 1
        w   == (ord - wd + 10) \div 7
    IN IF w < 1 THEN WeeksInYear(y - 1)
       ELSE IF w > WeeksInYear(y) THEN 1
       ELSE w

\* ------------------------------------------------------------- the columns

LogColumns == (DOMAIN l1) \cup {"timestamp", "datetime"}

CatalogColumns == DOMAIN c1

\* col("q.n") names column n of the dataframe aliased q; col("n") names
\* column n.
col(q, n) == [q |-> q, n |-> n]

\* No dataframe of the file is given an alias (there is no .alias(...) on a
\* dataframe): the names df and song_df are Python variables only.
Aliases == {}

Resolves(c, columns) == (c.q = "" \/ c.q \in Aliases) /\ c.n \in columns

JoinCondition == <<col("df", "artist"), col("song_df", "artist_name")>>

SongplayColumns == {col("df", "datetime"), col("df", "userId"), col("df", "level"),
                    col("song_df", "song_id"), col("song_df", "artist_id"),
                    col("df", "sessionId"), col("df", "location"),
                    col("df", "userAgent")}

\* The inner join of the log rows with the catalog rows on
\* artist = artist_name: one row per matching pair.
RECURSIVE join(_, _)
join(left, right) ==
    IF left = <<>> THEN <<>>
    ELSE LET l == left[Len(left)]
             matches == SelectSeq(right, LAMBDA c : l.artist = c.artist_name)
             merged == [i \in 1..Len(matches) |->
                          [k \in (DOMAIN l) \cup (DOMAIN matches[i]) |->
                              IF k \in DOMAIN l THEN l[k] ELSE matches[i][k]]]
         IN join(SubSeq(left, 1, Len(left) - 1), right) \o merged

\* monotonically_increasing_id(): the partition in the upper bits, the row's
\* position within it in the lower ones.
monotonically_increasing_id(i) == [partition |-> 0, n |-> i - 1]

songplays_select(rows) ==
    [i \in 1..Len(rows) |->
        [start_time  |-> rows[i].datetime,
         user_id     |-> rows[i].userId,
         level       |-> rows[i].level,
         song_id     |-> rows[i].song_id,
         artist_id   |-> rows[i].artist_id,
         session_id  |-> rows[i].sessionId,
         location    |-> rows[i].location,
         user_agent  |-> rows[i].userAgent,
         year        |-> year(rows[i].datetime),
         month       |-> month(rows[i].datetime),
         songplay_id |-> monotonically_increasing_id(i)]]

time_select(rows) ==
    [i \in 1..Len(rows) |->
        LET dt == rows[i].datetime
        IN [datetime |-> dt, start_time |-> dt, hour |-> hour(dt),
            day |-> dayofmonth(dt), week |-> weekofyear(dt),
            month |-> month(dt), year |-> year(dt), weekday |-> dayofweek(dt)]]

\* ---------------------------------------------------------- the statements

\* The first lines of the statements of process_log_data's body and the
\* columns they start at: line 134 is indented one column deeper than the
\* statements before it.
LogBodyLines == {76, 79, 82, 85, 89, 93, 94, 97, 98, 101, 112, 116, 119, 120, 134}

Indent(line) == IF line = 134 THEN 5 ELSE 4

\* Python compiles the whole file before it runs any of it: a statement
\* indented deeper than the block it sits in is an IndentationError.
compile(s) ==
    IF \A line \in LogBodyLines : Indent(line) = Indent(76)
    THEN [s EXCEPT !.pc = NextPc(s.pc)]
    ELSE Raise(s, "IndentationError")

\* Lines 9-13: config[...] indexes the SECTIONS of dl.cfg.  A missing section
\* is a KeyError; a section is not a string, and os.environ takes strings only.
L12(s) ==
    IF "AWS_ACCESS_KEY_ID" \notin cfg THEN Raise(s, "KeyError")
    ELSE Raise(s, "TypeError")

\* main() line 138: create_spark_session().
L138(s) == [s EXCEPT !.pc = NextPc(s.pc)]

\* spark.read.json(path): the records under the path.
read_json(rows) == rows

SongColumns == {"song_id", "title", "artist_id", "year", "duration"}

ArtistColumns == {"artist_id", "artist_name", "artist_location",
                  "artist_latitude", "artist_longitude"}

UserColumns == {"userId", "firstName", "lastName", "gender", "level"}

\* process_song_data -----------------------------------------------------

L41(s) ==
    [s EXCEPT !.env = [EmptyEnv EXCEPT !["df"] =
                          [bound |-> TRUE, rows |-> read_json(catalog)]],
              !.pc = NextPc(s.pc)]

L44(s) ==
    IF ~AllInScope({"df"}, s.env) THEN Raise(s, "NameError")
    ELSE Bind(s, "songs_table", distinct(select(s.env["df"].rows, SongColumns)))

\* The second argument is the comparison partitionBy == [...], which reads the
\* name partitionBy.
L47(s) ==
    IF ~AllInScope({"songs_table", "output_data", "partitionBy"}, s.env)
    THEN Raise(s, "NameError")
    ELSE parquet(s, "songs", "songs_table")

L51(s) ==
    IF ~AllInScope({"df"}, s.env) THEN Raise(s, "NameError")
    ELSE Bind(s, "artists_table", distinct(select(s.env["df"].rows, ArtistColumns)))

L55(s) ==
    IF ~AllInScope({"artists_table", "output_data"}, s.env) THEN Raise(s, "NameError")
    ELSE parquet(s, "artists", "artists_table")

\* process_log_data ------------------------------------------------------

L79(s) ==
    [s EXCEPT !.env = [EmptyEnv EXCEPT !["df"] =
                          [bound |-> TRUE, rows |-> read_json(log)]],
              !.pc = NextPc(s.pc)]

L82(s) ==
    IF ~AllInScope({"df"}, s.env) THEN Raise(s, "NameError")
    ELSE Bind(s, "df", SelectSeq(s.env["df"].rows, LAMBDA r : r.page = "NextSong"))

L85(s) ==
    IF ~AllInScope({"df"}, s.env) THEN Raise(s, "NameError")
    ELSE Bind(s, "users_table", distinct(select(s.env["df"].rows, UserColumns)))

L89(s) ==
    IF ~AllInScope({"users_table", "output_data"}, s.env) THEN Raise(s, "NameError")
    ELSE parquet(s, "users", "users_table")

L94(s) ==
    IF ~AllInScope({"udf", "df"}, s.env) THEN Raise(s, "NameError")
    ELSE Bind(s, "df", withColumn(s.env["df"].rows, "timestamp",
                                  [i \in 1..Len(s.env["df"].rows) |->
                                      get_timestamp(s.env["df"].rows[i].ts)]))

L98(s) ==
    IF ~AllInScope({"udf", "datetime", "df"}, s.env) THEN Raise(s, "NameError")
    ELSE Bind(s, "df", withColumn(s.env["df"].rows, "datetime",
                                  [i \in 1..Len(s.env["df"].rows) |->
                                      get_datetime(s.env["df"].rows[i].ts)]))

L101(s) ==
    IF ~AllInScope({"df", "hour", "dayofmonth", "weekofyear", "month", "year",
                    "dayofweek"}, s.env)
    THEN Raise(s, "NameError")
    ELSE Bind(s, "time_table", distinct(time_select(s.env["df"].rows)))

L112(s) ==
    IF ~AllInScope({"time_table", "output_data"}, s.env) THEN Raise(s, "NameError")
    ELSE parquet(s, "time", "time_table")

\* The catalog is read again, here with the pattern song_data/*/*/*/*.json
\* (line 41 reads the directories song_data/*/*/*/): the same records, the
\* catalog holding .json files only.
L116(s) == Bind(s, "song_df", read_json(catalog))

L119(s) ==
    IF ~AllInScope({"df", "song_df", "col"}, s.env) THEN Raise(s, "NameError")
    ELSE IF ~(\A i \in 1..Len(JoinCondition) :
                 Resolves(JoinCondition[i], LogColumns \cup CatalogColumns))
    THEN Raise(s, "AnalysisException")
    ELSE Bind(s, "merged_df", join(s.env["df"].rows, s.env["song_df"].rows))

L120(s) ==
    IF ~AllInScope({"merged_df", "col", "year", "month"}, s.env)
    THEN Raise(s, "NameError")
    ELSE IF ~(\A c \in SongplayColumns : Resolves(c, LogColumns \cup CatalogColumns))
    THEN Raise(s, "AnalysisException")
    ELSE IF ~AllInScope({"monotonically_increasing_id"}, s.env)
    THEN Raise(s, "NameError")
    ELSE Bind(s, "songplays_table", songplays_select(s.env["merged_df"].rows))

L134(s) ==
    IF ~AllInScope({"songplays_table", "output_data"}, s.env) THEN Raise(s, "NameError")
    ELSE parquet(s, "songplays", "songplays_table")

\* The statement at s.pc, executed.
Exec(s) ==
    CASE s.pc = "compile" -> compile(s)
      [] s.pc = "L12"  -> L12(s)
      [] s.pc = "L138" -> L138(s)
      [] s.pc = "L41"  -> L41(s)
      [] s.pc = "L44"  -> L44(s)
      [] s.pc = "L47"  -> L47(s)
      [] s.pc = "L51"  -> L51(s)
      [] s.pc = "L55"  -> L55(s)
      [] s.pc = "L79"  -> L79(s)
      [] s.pc = "L82"  -> L82(s)
      [] s.pc = "L85"  -> L85(s)
      [] s.pc = "L89"  -> L89(s)
      [] s.pc = "L94"  -> L94(s)
      [] s.pc = "L98"  -> L98(s)
      [] s.pc = "L101" -> L101(s)
      [] s.pc = "L112" -> L112(s)
      [] s.pc = "L116" -> L116(s)
      [] s.pc = "L119" -> L119(s)
      [] s.pc = "L120" -> L120(s)
      [] s.pc = "L134" -> L134(s)

\* ------------------------------------------------------------ the machine

Terminated == pc \in {"done", "failed"}

Init ==
    /\ catalog \in BoundedSeq(CatalogRows, MaxCatalog)
    /\ log \in BoundedSeq(LogRows, MaxLog)
    /\ cfg \in SUBSET CfgSections
    /\ pc = "compile"
    /\ exc = None
    /\ env = EmptyEnv
    /\ store = EmptyStore
    /\ written = <<>>
    /\ runs = 1
    /\ first = EmptyStore

\* The interpreter executes the statement the run is at.
Step ==
    /\ ~Terminated
    /\ LET s == Exec([pc |-> pc, exc |-> exc, env |-> env, store |-> store,
                      written |-> written])
       IN /\ pc' = s.pc
          /\ exc' = s.exc
          /\ env' = s.env
          /\ store' = s.store
          /\ written' = s.written
    /\ UNCHANGED <<catalog, log, cfg, runs, first>>

\* The script is started again on the same inputs and the same output
\* location.
Relaunch ==
    /\ Terminated
    /\ runs < MaxRuns
    /\ runs' = runs + 1
    /\ first' = IF runs = 1 THEN store ELSE first
    /\ pc' = "compile"
    /\ exc' = None
    /\ env' = EmptyEnv
    /\ written' = <<>>
    /\ UNCHANGED <<catalog, log, cfg, store>>

Next == Step \/ Relaunch

Spec == Init /\ [][Next]_vars

\* ============================================================== the claims

TableOrder == <<"songs", "artists", "users", "time", "songplays">>

IsPrefix(a, b) == Len(a) <= Len(b) /\ a = SubSeq(b, 1, Len(a))

RowsOf(table) == {table.rows[i] : i \in 1..Len(table.rows)}

NoDuplicates(table) ==
    \A i, j \in 1..Len(table.rows) : table.rows[i] = table.rows[j] => i = j

Projection(r, cols) == [c \in cols |-> r[c]]

\* The log rows that pass the page = "NextSong" filter.
Plays == {log[i] : i \in {k \in 1..Len(log) : log[k].page = "NextSong"}}

\* Songplays row r comes from log row l.
FromLogRow(r, l) ==
    /\ r.start_time = get_datetime(l.ts)
    /\ r.user_id = l.userId
    /\ r.session_id = l.sessionId
    /\ r.level = l.level

\* C1: once the run has ended, the songs table holds exactly the distinct
\* (song_id, title, artist_id, year, duration) projections of the catalog
\* rows: every projection is there, every row is one, no row twice.
C1_SongsAreDistinctProjections ==
    Terminated =>
        /\ store["songs"].exists
        /\ RowsOf(store["songs"]) =
               {Projection(catalog[i], SongColumns) : i \in 1..Len(catalog)}
        /\ NoDuplicates(store["songs"])

C4_WritesFormPrefix ==
    /\ IsPrefix(written, TableOrder)
    /\ pc = "done" => written = TableOrder /\ exc = None
    /\ pc = "failed" => exc # None

\* C4's case: a run that an exception ended, with the tables after the failure
\* unwritten.
C4_Witness ==
    /\ pc = "failed"
    /\ exc # None
    /\ written # TableOrder
    /\ IsPrefix(written, TableOrder)
    /\ catalog # <<>>
    /\ log # <<>>

\* C5: once the run has ended without raising, a play contributes a songplays
\* row exactly when the catalog holds a row of its artist, and every songplays
\* row carries the song_id and artist_id of a catalog row whose artist_name is
\* the artist of the play it came from.
C5_JoinOnArtistName ==
    Terminated =>
        /\ exc = None
        /\ store["songplays"].exists
        /\ \A l \in Plays :
               (\E r \in RowsOf(store["songplays"]) : FromLogRow(r, l))
                   <=> (\E i \in 1..Len(catalog) : catalog[i].artist_name = l.artist)
        /\ \A r \in RowsOf(store["songplays"]) :
               \E l \in Plays, i \in 1..Len(catalog) :
                   /\ FromLogRow(r, l)
                   /\ catalog[i].artist_name = l.artist
                   /\ r.song_id = catalog[i].song_id
                   /\ r.artist_id = catalog[i].artist_id

C7_UsersDedupOnWholeTuple ==
    Terminated =>
        /\ store["users"].exists
        /\ RowsOf(store["users"]) = {Projection(l, UserColumns) : l \in Plays}
        /\ NoDuplicates(store["users"])

\* C8: with no log records the run ends without raising and users, time and
\* songplays are written with zero rows, whatever the catalog holds.
C8_EmptyLogCompletes ==
    (log = <<>> /\ Terminated) =>
        /\ exc = None
        /\ \A t \in {"users", "time", "songplays"} :
               store[t].exists /\ store[t].rows = <<>>

WithoutId(r) == [c \in (DOMAIN r) \ {"songplay_id"} |-> r[c]]

\* C9: the second of two runs on the same inputs and output location
\* completes as the first did, and leaves every table with the rows the first
\* run left (the songplay_id column aside).
C9_SecondRunSameRows ==
    (runs = 2 /\ Terminated) =>
        /\ pc = "done"
        /\ \A t \in Tables :
               /\ first[t].exists
               /\ store[t].exists
               /\ {WithoutId(r) : r \in RowsOf(store[t])} =
                      {WithoutId(r) : r \in RowsOf(first[t])}

====
